---- MODULE Spec2Model ----
(***************************************************************************)
(* State-machine model of the storefront: the Redux cart slice, the        *)
(* ShoppingCart checkout flow, the browser storage keys it persists to,    *)
(* and the simulated user session (Login, Logout, HomePage, UpdateUser,    *)
(* DeleteUser, OrderHistory), ProductCatalog's queries, sorting and        *)
(* filtering, and the Register page.                                       *)
(*                                                                         *)
(* Conventions.                                                            *)
(*  - Prices are integers (a price unit), quantities are integers.         *)
(*  - A user name is a sequence of one-character strings, so that          *)
(*    String.prototype.toLowerCase can be computed character by character. *)
(*  - A storage key is absent, holds text that JSON.parse rejects, or      *)
(*    holds the JSON text of a value; the last is kept as the value.       *)
(*  - Array indices are 1-based; findIndex returns 0 where JS returns -1.  *)
(*  - A cart line carries id, price and quantity; the other product fields *)
(*    copied into it, which no handler reads, the product's image and the  *)
(*    order's id/date strings (Date.now()) are not carried.                *)
(***************************************************************************)
EXTENDS Integers, Sequences, FiniteSets, TLC

VARIABLES
    route,           \* current client-side route (react-router location)
    user,            \* App's useState user, shared through UserContext
    cart,            \* Redux state.cart
    lsUser,          \* localStorage 'userSession'
    lsOrders,        \* localStorage 'orderHistory'
    ssCart,          \* sessionStorage 'shoppingCart'
    checkoutTimers,  \* pending 500 ms timers of handleCheckout, oldest first
    delayed,         \* pending 1000 ms continuations (UpdateUser, DeleteUser)
    redirects,       \* pending 3000 ms redirect timers, oldest first
    effectPending,   \* the mounted route component has a useEffect to run
    showConfirmation,\* DeleteUser's component state
    isLoading,       \* isLoading of the mounted UpdateUser / DeleteUser
    ohQuery,         \* react-query state of ['orderHistory']
    catalog,         \* ProductCatalog: its two queries and its UI controls
    register,        \* Register: its state, its fetches in flight, its timers
    clicks,          \* history: checkout clicks that started a timer
    lost,            \* history: checkout timers discarded by a page load
    sinceLogout,     \* history: Logout's effect ran and handleLogin has not since
    lastEvent        \* history: the handler that ran last

vars == << route, user, cart, lsUser, lsOrders, ssCart, checkoutTimers, delayed,
           redirects, effectPending, showConfirmation, isLoading, ohQuery,
           catalog, register, clicks, lost, sinceLogout, lastEvent >>

----------------------------------------------------------------------------
(* Bounds *)

MaxId == 2          \* product ids 1..MaxId
MaxPrice == 2       \* prices 1..MaxPrice
MaxQty == 2         \* largest quantity of one cart line
MaxCheckouts == 2   \* checkout clicks that start a timer
MaxDelayed == 1     \* pending 1000 ms continuations
MaxShopItems == 2   \* items put into the cart from the catalog page
MaxRate == 2        \* rating.rate 1..MaxRate
MaxRegister == 2    \* Register's fetches in flight plus its pending timers

Ids == 1..MaxId
Prices == 1..MaxPrice

\* Payloads of addToCart: any id with any price.
Payloads == [id : Ids, price : Prices]


----------------------------------------------------------------------------
(* Redux cart slice *)

initialState == [items |-> << >>, totalItems |-> 0, totalPrice |-> 0]

findIndex_None(items, id) == 0

\* Array.prototype.findIndex(item => item.id === id); 0 when there is none.
findIndex(items, id) ==
    IF \E i \in 1..Len(items) : items[i].id = id
    THEN CHOOSE i \in 1..Len(items) :
            /\ items[i].id = id
            /\ \A j \in 1..(i - 1) : items[j].id # id
    ELSE 0

splice1_Last(items, index) == SubSeq(items, 1, Len(items) - 1)

\* Array.prototype.splice(index, 1)
splice1(items, index) ==
    [i \in 1..(Len(items) - 1) |-> IF i < index THEN items[i] ELSE items[i + 1]]

addToCart_NoTotal(state, itemToAdd) ==
    LET existingItemIndex == findIndex(state.items, itemToAdd.id) IN
    [items |-> IF existingItemIndex # 0
               THEN [state.items EXCEPT ![existingItemIndex].quantity = @ + 1]
               ELSE Append(state.items, [id |-> itemToAdd.id,
                                         price |-> itemToAdd.price,
                                         quantity |-> 1]),
     totalItems |-> state.totalItems,
     totalPrice |-> state.totalPrice + itemToAdd.price]

addToCart_AlwaysPush(state, itemToAdd) ==
    [items |-> Append(state.items, [id |-> itemToAdd.id,
                                    price |-> itemToAdd.price,
                                    quantity |-> 1]),
     totalItems |-> state.totalItems + 1,
     totalPrice |-> state.totalPrice + itemToAdd.price]

addToCart(state, itemToAdd) ==
    LET existingItemIndex == findIndex(state.items, itemToAdd.id) IN
    [items |-> IF existingItemIndex # 0
               THEN [state.items EXCEPT ![existingItemIndex].quantity = @ + 1]
               ELSE Append(state.items, [id |-> itemToAdd.id,
                                         price |-> itemToAdd.price,
                                         quantity |-> 1]),
     totalItems |-> state.totalItems + 1,
     totalPrice |-> state.totalPrice + itemToAdd.price]

removeFromCart(state, itemIdToRemove) ==
    LET itemIndex == findIndex(state.items, itemIdToRemove) IN
    IF itemIndex # 0
    THEN LET itemToRemove == state.items[itemIndex] IN
         [items |-> splice1(state.items, itemIndex),
          totalItems |-> state.totalItems - itemToRemove.quantity,
          totalPrice |-> state.totalPrice
                           - itemToRemove.price * itemToRemove.quantity]
    ELSE state

updateQuantity_RemoveAtZero(state, itemId, quantity) ==
    LET itemIndex == findIndex(state.items, itemId) IN
    IF itemIndex = 0 THEN state
    ELSE LET itemToUpdate == state.items[itemIndex]
             quantityDifference == quantity - itemToUpdate.quantity IN
         [items |-> IF quantity > 0
                    THEN [state.items EXCEPT ![itemIndex].quantity = quantity]
                    ELSE splice1(state.items, itemIndex),
          totalItems |-> state.totalItems + quantityDifference,
          totalPrice |-> state.totalPrice
                           + quantityDifference * itemToUpdate.price]

updateQuantity(state, itemId, quantity) ==
    LET itemIndex == findIndex(state.items, itemId) IN
    IF itemIndex # 0 /\ quantity > 0
    THEN LET itemToUpdate == state.items[itemIndex]
             quantityDifference == quantity - itemToUpdate.quantity IN
         [items |-> [state.items EXCEPT ![itemIndex].quantity = quantity],
          totalItems |-> state.totalItems + quantityDifference,
          totalPrice |-> state.totalPrice
                           + quantityDifference * itemToUpdate.price]
    ELSE state

clearCart_KeepPrice(state) ==
    [items |-> << >>, totalItems |-> 0, totalPrice |-> state.totalPrice]

clearCart_KeepTotals(state) == [state EXCEPT !.items = << >>]

clearCart(state) == [items |-> << >>, totalItems |-> 0, totalPrice |-> 0]

\* cartItems.reduce((total, item) => total + item.price * item.quantity, 0)
RECURSIVE calculateTotal(_)
calculateTotal(cartItems) ==
    IF cartItems = << >> THEN 0
    ELSE calculateTotal(SubSeq(cartItems, 1, Len(cartItems) - 1))
            + cartItems[Len(cartItems)].price * cartItems[Len(cartItems)].quantity

\* Sum of the quantities of the cart lines (CartState.totalItems, by its
\* declaration).
RECURSIVE SumQuantities(_)
SumQuantities(cartItems) ==
    IF cartItems = << >> THEN 0
    ELSE SumQuantities(SubSeq(cartItems, 1, Len(cartItems) - 1))
            + cartItems[Len(cartItems)].quantity

\* The largest total a cart within the bounds can have; the model follows
\* state.totalPrice while it stays within -MaxTotal..MaxTotal.
MaxTotal == MaxId * MaxQty * MaxPrice
InBounds(state) == state.totalPrice \in (-MaxTotal)..MaxTotal

\* The quantity addToCart would give the line of id (bounds the model).
QuantityAfterAdd(items, id) ==
    IF findIndex(items, id) = 0 THEN 1 ELSE items[findIndex(items, id)].quantity + 1

----------------------------------------------------------------------------
(* Browser storage *)

Absent == [kind |-> "absent"]
Malformed == [kind |-> "malformed"]
Json(v) == [kind |-> "json", value |-> v]

\* utils/localStorageHelpers.ts
getOrdersFromLocalStorage(ls) ==
    IF ls.kind = "json" THEN ls.value ELSE << >>

\* ShoppingCart's getCartFromSessionStorage (no part of the code calls it).
getCartFromSessionStorage(ss) ==
    IF ss.kind = "json" THEN ss.value ELSE << >>

saveOrderToLocalStorage_Replace(ls, newOrder) == Json(<< newOrder >>)

saveOrderToLocalStorage(ls, newOrder) ==
    Json(Append(getOrdersFromLocalStorage(ls), newOrder))

----------------------------------------------------------------------------
(* User names and the admin test *)

NameEmpty == << >>
NameAdminLower == << "a", "d", "m", "i", "n" >>
NameAdminMixed == << "A", "d", "m", "i", "n" >>
NameBob == << "b", "o", "b" >>
NameAl == << "A", "l" >>

\* What the user can type into Login's username field (not required: may be
\* empty) and into UpdateUser's username field (required: never empty).
LoginNames == { NameEmpty, NameAdminMixed, NameBob }
UpdateNames == { NameAl }

UpperCase == << "A", "B", "D", "I", "L", "M", "N", "O" >>
LowerCase == << "a", "b", "d", "i", "l", "m", "n", "o" >>

LowerChar(c) ==
    IF \E i \in 1..Len(UpperCase) : UpperCase[i] = c
    THEN LowerCase[CHOOSE i \in 1..Len(UpperCase) : UpperCase[i] = c]
    ELSE c

\* String.prototype.toLowerCase
toLowerCase(s) == [i \in 1..Len(s) |-> LowerChar(s[i])]

LoggedOut == [name |-> NameEmpty, isLoggedIn |-> FALSE]

IsAdmin_CaseSensitive(name) == name = NameAdminLower

\* userData.name.toLowerCase() === 'admin'
IsAdmin(name) == toLowerCase(name) = NameAdminLower

\* The route Login navigates to for a user of this name.
LoginTarget(name) == IF IsAdmin(name) THEN "/add-product" ELSE "/home"

----------------------------------------------------------------------------
(* ProductCatalog: the product type, sorting and filtering *)

Rates == 1..MaxRate

CategoryNames == { "electronics", "jewelery" }

\* Titles and descriptions of products, and what is typed into the search
\* field, as sequences of characters.
TextAb == << "A", "b" >>
TextB == << "b" >>
TextA == << "a" >>
TextUpperA == << "A" >>
TextAB == << "a", "B" >>
TextEmpty == << >>

\* (title, description, category) of a product.
ProductKinds == { << TextAb, TextEmpty, "electronics" >>,
                  << TextB, TextA, "electronics" >>,
                  << TextB, TextEmpty, "jewelery" >> }

SearchQueries == { TextEmpty, TextUpperA, TextAB }

\* interface Product (image is not carried).
Products ==
    { [id |-> i, title |-> k[1], price |-> p, description |-> k[2],
       category |-> k[3], rating |-> [rate |-> r]] :
         i \in Ids, k \in ProductKinds, p \in Prices, r \in Rates }

\* What GET /products can return: products with pairwise different ids, in
\* any order.
ProductLists ==
    { l \in UNION { [1..n -> Products] : n \in 0..MaxId } :
        \A i, j \in 1..Len(l) : i # j => l[i].id # l[j].id }

\* What GET /products/categories can return.
CategoryLists == { << "electronics", "jewelery" >>, << "electronics" >> }

\* The catalog the shop is run with: product i costs ((i - 1) % MaxPrice) + 1.
Catalog ==
    [i \in Ids |-> [id |-> i, title |-> TextB,
                    price |-> ((i - 1) % MaxPrice) + 1,
                    description |-> TextEmpty, category |-> "jewelery",
                    rating |-> [rate |-> 1]]]

SortOptions == { "default", "price-low-to-high", "price-high-to-low", "rating" }

\* The comparator passed to Array.prototype.sort for a sort option.
compareFn(sortOption, a, b) ==
    CASE sortOption = "price-low-to-high" -> a.price - b.price
      [] sortOption = "price-high-to-low" -> b.price - a.price
      [] sortOption = "rating" -> b.rating.rate - a.rating.rate
      [] OTHER -> 0

\* Array.prototype.sort(compareFn), which is stable: x goes behind every
\* element that does not compare greater than it.
RECURSIVE insertSorted(_, _, _)
insertSorted(sorted, x, sortOption) ==
    IF sorted = << >> THEN << x >>
    ELSE IF compareFn(sortOption, sorted[Len(sorted)], x) <= 0
         THEN Append(sorted, x)
         ELSE Append(insertSorted(SubSeq(sorted, 1, Len(sorted) - 1), x,
                                  sortOption),
                     sorted[Len(sorted)])

RECURSIVE sort(_, _)
sort(array, sortOption) ==
    IF array = << >> THEN << >>
    ELSE insertSorted(sort(SubSeq(array, 1, Len(array) - 1), sortOption),
                      array[Len(array)], sortOption)

sortedProducts_Unsorted(productsArray, sortOption) == productsArray

\* useMemo sortedProducts: a sorted copy, or the array itself for 'default'.
sortedProducts(productsArray, sortOption) ==
    IF sortOption \in { "price-low-to-high", "price-high-to-low", "rating" }
    THEN sort(productsArray, sortOption)
    ELSE productsArray

productsAfterSort_InPlace(productsArray, sortOption) ==
    sortedProducts(productsArray, sortOption)

\* The fetched array after sortedProducts was computed: sort() is called on
\* the copy [...productsArray], so the array itself is as it was.
productsAfterSort(productsArray, sortOption) == productsArray

\* String.prototype.includes
includes(text, query) ==
    \E i \in 0..(Len(text) - Len(query)) :
        SubSeq(text, i + 1, i + Len(query)) = query

categoryMatch(product, selectedCategory) == product.category = selectedCategory

\* sortedProducts.filter(product => product.category === selectedCategory)
RECURSIVE filterByCategory(_, _)
filterByCategory(array, selectedCategory) ==
    IF array = << >> THEN << >>
    ELSE LET rest == filterByCategory(SubSeq(array, 1, Len(array) - 1),
                                      selectedCategory)
             last == array[Len(array)] IN
         IF categoryMatch(last, selectedCategory) THEN Append(rest, last)
         ELSE rest

searchMatch_TitleOnly(product, lowerCaseQuery) ==
    includes(toLowerCase(product.title), lowerCaseQuery)

searchMatch(product, lowerCaseQuery) ==
    \/ includes(toLowerCase(product.title), lowerCaseQuery)
    \/ includes(toLowerCase(product.description), lowerCaseQuery)

\* categoryFilteredProducts.filter(product => titleMatch || descriptionMatch)
RECURSIVE filterBySearch(_, _)
filterBySearch(array, lowerCaseQuery) ==
    IF array = << >> THEN << >>
    ELSE LET rest == filterBySearch(SubSeq(array, 1, Len(array) - 1),
                                    lowerCaseQuery)
             last == array[Len(array)] IN
         IF searchMatch(last, lowerCaseQuery) THEN Append(rest, last) ELSE rest

\* useMemo filteredProducts
filteredProducts(sorted, searchQuery, selectedCategory) ==
    LET categoryFilteredProducts ==
            IF selectedCategory # "all"
            THEN filterByCategory(sorted, selectedCategory)
            ELSE sorted IN
    IF searchQuery = TextEmpty
    THEN categoryFilteredProducts
    ELSE filterBySearch(categoryFilteredProducts, toLowerCase(searchQuery))

\* A query of react-query: its status, whether a mounted ProductCatalog has
\* started it in this page session, and the data of the last successful
\* fetch (products ?? [] while there is none). Once started, an answer can
\* arrive at any time: to the fetch on mount, or to a refetch (on remount, on
\* window focus) that may still be in flight after the component is gone.
InitialCatalogQuery == [status |-> "pending", started |-> FALSE, data |-> << >>]

\* ProductCatalog's two queries and its useState values.
InitialCatalog ==
    [products |-> InitialCatalogQuery,
     categories |-> InitialCatalogQuery,
     sortOption |-> "default",
     searchQuery |-> TextEmpty,
     selectedCategory |-> "all"]

\* A change of route unmounts ProductCatalog, whose useState values start
\* afresh; the query cache stays. Mounting it under HomePage starts both
\* queries.
Remount(c, mounts) ==
    [c EXCEPT !.sortOption = "default",
              !.searchQuery = TextEmpty,
              !.selectedCategory = "all",
              !.products.started = @ \/ mounts,
              !.categories.started = @ \/ mounts]

View_ErrorFirst(c) ==
    IF c.products.status = "error" \/ c.categories.status = "error"
    THEN "error"
    ELSE IF c.products.status = "pending" \/ c.categories.status = "pending"
         THEN "loading"
         ELSE "grid"

\* What ProductCatalog returns: the loading line, the error line or the grid.
View(c) ==
    IF c.products.status = "pending" \/ c.categories.status = "pending"
    THEN "loading"
    ELSE IF c.products.status = "error" \/ c.categories.status = "error"
         THEN "error"
         ELSE "grid"

\* The product cards of the grid, in order.
Displayed(c) ==
    filteredProducts(sortedProducts(c.products.data, c.sortOption),
                     c.searchQuery, c.selectedCategory)

Range(seq) == { seq[i] : i \in 1..Len(seq) }

----------------------------------------------------------------------------
(* Register: component state, fetches in flight and redirect timers *)

\* The useState values of a freshly mounted Register; no fetch of this page
\* load is in flight and no timer is set. The form's three fields go into
\* the request body only and are not carried.
InitialRegister ==
    [isLoading |-> FALSE, showSuccessAlert |-> FALSE, showErrorAlert |-> FALSE,
     errorMessage |-> "", requests |-> << >>, timers |-> << >>]

\* Register is unmounted: the next mount starts from the useState defaults,
\* and the fetches and timers of the old instance go on with setters that
\* no longer reach a mounted component.
UnmountRegister(reg) ==
    [InitialRegister EXCEPT
        !.requests = [i \in 1..Len(reg.requests) |-> [live |-> FALSE]],
        !.timers = [i \in 1..Len(reg.timers) |-> [live |-> FALSE]]]

\* How the POST to /users ends: fetch rejects, or it resolves to a response
\* that is ok or not and whose body response.json() parses or not.
Rejected == [settled |-> "rejected", ok |-> FALSE, json |-> FALSE]
Fulfilled(ok, json) == [settled |-> "fulfilled", ok |-> ok, json |-> json]
Outcomes == { Rejected } \cup { Fulfilled(ok, json) : ok, json \in BOOLEAN }

\* Whether the try block of handleRegister throws on this outcome.
Throws(outcome) ==
    \/ outcome.settled = "rejected"
    \/ ~outcome.json
    \/ ~outcome.ok

\* error.message of what the try block throws.
ErrorMessage(outcome) ==
    IF outcome.settled = "rejected" THEN "Failed to fetch"
    ELSE IF ~outcome.json THEN "Unexpected token"
    ELSE "Registration failed: 400 - {}"

RemoveAt(seq, i) == [k \in 1..(Len(seq) - 1) |-> IF k < i THEN seq[k] ELSE seq[k + 1]]

\* handleRegister up to the await of fetch.
submitRegister(reg) ==
    [reg EXCEPT !.isLoading = TRUE,
                !.showErrorAlert = FALSE,
                !.errorMessage = "",
                !.requests = Append(@, [live |-> TRUE])]

settleRegister_NoFinally(reg, i, outcome) ==
    LET live == reg.requests[i].live
        rest == [reg EXCEPT !.requests = RemoveAt(@, i)] IN
    IF Throws(outcome)
    THEN IF live
         THEN [rest EXCEPT !.showErrorAlert = TRUE,
                           !.errorMessage = ErrorMessage(outcome)]
         ELSE rest
    ELSE [rest EXCEPT !.showSuccessAlert = IF live THEN TRUE ELSE @,
                      !.isLoading = IF live THEN FALSE ELSE @,
                      !.timers = Append(@, [live |-> live])]

\* handleRegister from the await of fetch on, for the i-th fetch in flight:
\* the rest of try, catch, finally. The setters change the state of the
\* instance that submitted only while it is mounted.
settleRegister(reg, i, outcome) ==
    LET live == reg.requests[i].live
        rest == [reg EXCEPT !.requests = RemoveAt(@, i)]
        tried == IF Throws(outcome)
                 THEN IF live
                      THEN [rest EXCEPT !.showErrorAlert = TRUE,
                                        !.errorMessage = ErrorMessage(outcome)]
                      ELSE rest
                 ELSE [rest EXCEPT !.showSuccessAlert = IF live THEN TRUE ELSE @,
                                   !.timers = Append(@, [live |-> live])] IN
    [tried EXCEPT !.isLoading = IF live THEN FALSE ELSE @]

----------------------------------------------------------------------------
(* Routing *)

Routes == { "/", "/register", "/home", "/cart", "/add-product",
            "/order-history", "/logout", "/update-profile", "/delete-user" }

\* Routes whose component runs a useEffect when it mounts.
EffectRoutes == { "/", "/home", "/cart", "/logout", "/update-profile",
                  "/delete-user" }

\* Routes whose effect depends on user.isLoggedIn.
GuardedRoutes == { "/home", "/update-profile", "/delete-user" }

Unmount_Cancel(d) == << >>

\* The component that scheduled a continuation is unmounted.
Unmount(d) == [i \in 1..Len(d) |-> [d[i] EXCEPT !.live = FALSE]]

\* react-router navigate(r): a change of route unmounts the current
\* component and mounts r's; navigating to the current route changes nothing.
Goto(r, d, reg) ==
    IF r = route
    THEN /\ delayed' = d
         /\ register' = reg
         /\ UNCHANGED << route, showConfirmation, isLoading, ohQuery, catalog >>
    ELSE /\ route' = r
         /\ catalog' = Remount(catalog, r = "/home")
         /\ register' = UnmountRegister(reg)
         /\ delayed' = Unmount(d)
         /\ showConfirmation' = FALSE
         /\ isLoading' = FALSE
         /\ ohQuery' = IF r = "/order-history"
                       THEN [ohQuery EXCEPT !.fetching = TRUE]
                       ELSE ohQuery

\* Whether an effect is pending after navigate(r) from a component whose own
\* effect is (still) pending exactly when own is TRUE.
PendingAfter(r, own) == IF r = route THEN own ELSE r \in EffectRoutes

Event(op, arg) == [op |-> op, arg |-> arg]

----------------------------------------------------------------------------
(* Initial state: a fresh page load of '/' *)

\* useQuery with initialData: status starts 'success'. The data array is not
\* carried.
InitialQuery == [status |-> "success", fetching |-> FALSE]

Init ==
    /\ route = "/"
    /\ user = LoggedOut
    /\ cart = initialState
    /\ lsUser = Absent
    /\ lsOrders \in { Absent, Malformed }
    /\ ssCart = Absent
    /\ checkoutTimers = << >>
    /\ delayed = << >>
    /\ redirects = << >>
    /\ effectPending = TRUE
    /\ showConfirmation = FALSE
    /\ isLoading = FALSE
    /\ ohQuery = InitialQuery
    /\ catalog = InitialCatalog
    /\ register = InitialRegister
    /\ clicks = 0
    /\ lost = 0
    /\ sinceLogout = FALSE
    /\ lastEvent = Event("load", "/")

----------------------------------------------------------------------------
(* Store-level dispatches of the exported cart actions *)

CartOnly == << route, user, lsUser, lsOrders, ssCart, checkoutTimers, delayed,
               redirects, effectPending, showConfirmation, isLoading, ohQuery,
               catalog, register, clicks, lost, sinceLogout >>

DispatchAddToCart(p) ==
    /\ QuantityAfterAdd(cart.items, p.id) <= MaxQty
    /\ InBounds(addToCart(cart, p))
    /\ cart' = addToCart(cart, p)
    /\ lastEvent' = Event("addToCart", p)
    /\ UNCHANGED CartOnly

DispatchRemoveFromCart(id) ==
    /\ InBounds(removeFromCart(cart, id))
    /\ cart' = removeFromCart(cart, id)
    /\ lastEvent' = Event("removeFromCart", id)
    /\ UNCHANGED CartOnly

DispatchUpdateQuantity(id, q) ==
    /\ InBounds(updateQuantity(cart, id, q))
    /\ cart' = updateQuantity(cart, id, q)
    /\ lastEvent' = Event("updateQuantity", [itemId |-> id, quantity |-> q])
    /\ UNCHANGED CartOnly

DispatchClearCart ==
    /\ cart' = clearCart(cart)
    /\ lastEvent' = Event("clearCart", Len(cart.items))
    /\ UNCHANGED CartOnly

CartNext ==
    \/ \E p \in Payloads : DispatchAddToCart(p)
    \/ \E id \in Ids : DispatchRemoveFromCart(id)
    \/ \E id \in Ids, q \in (-1)..MaxQty : DispatchUpdateQuantity(id, q)
    \/ DispatchClearCart

CartSpec == Init /\ [][CartNext]_vars

----------------------------------------------------------------------------
(* Login *)

LoginEffectStorage_Keep(ls) == ls

\* The catch of Login's useEffect: localStorage.removeItem('userSession')
\* when JSON.parse throws; an absent key is left alone.
LoginEffectStorage(ls) == IF ls.kind = "malformed" THEN Absent ELSE ls

\* Login's useEffect: restore a stored session, or drop a corrupted one.
LoginEffect ==
    /\ route = "/"
    /\ effectPending
    /\ IF lsUser.kind = "json"
       THEN /\ user' = lsUser.value
            /\ Goto(LoginTarget(lsUser.value.name), delayed, register)
            /\ effectPending' = PendingAfter(LoginTarget(lsUser.value.name), FALSE)
            /\ UNCHANGED lsUser
       ELSE /\ lsUser' = LoginEffectStorage(lsUser)
            /\ effectPending' = FALSE
            /\ UNCHANGED << user, route, delayed, showConfirmation, isLoading,
                            ohQuery, catalog, register >>
    /\ lastEvent' = Event("LoginEffect", << lsUser.kind, user.isLoggedIn >>)
    /\ UNCHANGED sinceLogout
    /\ UNCHANGED << cart, lsOrders, ssCart, checkoutTimers, redirects, clicks,
                    lost >>

userData_RejectEmpty(username) ==
    [name |-> username, isLoggedIn |-> username # NameEmpty]

\* const userData = { name: username, isLoggedIn: true }
userData(username) == [name |-> username, isLoggedIn |-> TRUE]

handleLogin(username) ==
    /\ route = "/"
    /\ ~effectPending
    /\ user' = userData(username)
    /\ lsUser' = Json(userData(username))
    /\ Goto(LoginTarget(username), delayed, register)
    /\ effectPending' = PendingAfter(LoginTarget(username), FALSE)
    /\ lastEvent' = Event("handleLogin", username)
    /\ sinceLogout' = FALSE
    /\ UNCHANGED << cart, lsOrders, ssCart, checkoutTimers, redirects, clicks,
                    lost >>

----------------------------------------------------------------------------
(* HomePage, UpdateUser and DeleteUser guards; Logout *)

HomePageEffect ==
    /\ route = "/home"
    /\ effectPending
    /\ IF ~user.isLoggedIn
       THEN /\ Goto("/", delayed, register)
            /\ effectPending' = PendingAfter("/", FALSE)
            /\ UNCHANGED lsUser
       ELSE /\ lsUser' = IF lsUser.kind = "malformed" THEN Absent ELSE lsUser
            /\ effectPending' = FALSE
            /\ UNCHANGED << route, delayed, showConfirmation, isLoading, ohQuery,
                            catalog, register >>
    /\ lastEvent' = Event("HomePageEffect", << lsUser.kind, user.isLoggedIn >>)
    /\ UNCHANGED sinceLogout
    /\ UNCHANGED << user, cart, lsOrders, ssCart, checkoutTimers, redirects,
                    clicks, lost >>

\* The same effect in UpdateUser and in DeleteUser.
LoginGuardEffect(r) ==
    /\ route = r
    /\ effectPending
    /\ IF ~user.isLoggedIn
       THEN /\ Goto("/", delayed, register)
            /\ effectPending' = PendingAfter("/", FALSE)
       ELSE /\ effectPending' = FALSE
            /\ UNCHANGED << route, delayed, showConfirmation, isLoading, ohQuery,
                            catalog, register >>
    /\ lastEvent' = Event("LoginGuardEffect", r)
    /\ UNCHANGED sinceLogout
    /\ UNCHANGED << user, cart, lsUser, lsOrders, ssCart, checkoutTimers,
                    redirects, clicks, lost >>

UpdateUserEffect == LoginGuardEffect("/update-profile")

DeleteUserEffect == LoginGuardEffect("/delete-user")

LogoutEffect ==
    /\ route = "/logout"
    /\ effectPending
    /\ lsUser' = Absent
    /\ user' = LoggedOut
    /\ Goto("/", delayed, register)
    /\ effectPending' = PendingAfter("/", FALSE)
    /\ lastEvent' = Event("LogoutEffect", 0)
    /\ sinceLogout' = TRUE
    /\ UNCHANGED << cart, lsOrders, ssCart, checkoutTimers, redirects, clicks,
                    lost >>

PendingAfterSetUser_NoRerun(u) == effectPending

\* setUser(u) re-runs the login guard of the mounted page when
\* user.isLoggedIn changes.
PendingAfterSetUser(u) ==
    effectPending \/ (route \in GuardedRoutes /\ u.isLoggedIn # user.isLoggedIn)

----------------------------------------------------------------------------
(* UpdateUser and DeleteUser handlers *)

updatedUser_KeepName(u, username) == u

\* const updatedUser = { ...user, name: username }
updatedUser(u, username) == [u EXCEPT !.name = username]

\* handleUpdateUser up to its await: the continuation keeps updatedUser.
handleUpdateUser(username) ==
    /\ route = "/update-profile"
    /\ ~effectPending
    /\ ~isLoading
    /\ Len(delayed) + Len(redirects) < MaxDelayed
    /\ isLoading' = TRUE
    /\ delayed' = Append(delayed, [op |-> "update",
                                   user |-> updatedUser(user, username),
                                   live |-> TRUE])
    /\ lastEvent' = Event("handleUpdateUser", username)
    /\ UNCHANGED << sinceLogout, catalog, register >>
    /\ UNCHANGED << route, user, cart, lsUser, lsOrders, ssCart, checkoutTimers,
                    redirects, effectPending, showConfirmation, ohQuery, clicks,
                    lost >>

showDeleteConfirmation ==
    /\ route = "/delete-user"
    /\ ~effectPending
    /\ ~showConfirmation
    /\ showConfirmation' = TRUE
    /\ lastEvent' = Event("showDeleteConfirmation", 0)
    /\ UNCHANGED << sinceLogout, catalog, register >>
    /\ UNCHANGED << route, user, cart, lsUser, lsOrders, ssCart, checkoutTimers,
                    delayed, redirects, effectPending, isLoading, ohQuery,
                    clicks, lost >>

handleCancelDelete ==
    /\ route = "/delete-user"
    /\ ~effectPending
    /\ showConfirmation
    /\ ~isLoading
    /\ showConfirmation' = FALSE
    /\ lastEvent' = Event("handleCancelDelete", 0)
    /\ UNCHANGED << sinceLogout, catalog, register >>
    /\ UNCHANGED << route, user, cart, lsUser, lsOrders, ssCart, checkoutTimers,
                    delayed, redirects, effectPending, isLoading, ohQuery,
                    clicks, lost >>

handleDeleteAccount_Unconfirmed ==
    /\ route = "/delete-user"
    /\ ~effectPending
    /\ ~isLoading
    /\ Len(delayed) + Len(redirects) < MaxDelayed
    /\ isLoading' = TRUE
    /\ delayed' = Append(delayed, [op |-> "delete", user |-> LoggedOut,
                                   live |-> TRUE])
    /\ lastEvent' = Event("handleDeleteAccount", 0)
    /\ UNCHANGED << sinceLogout, catalog, register >>
    /\ UNCHANGED << route, user, cart, lsUser, lsOrders, ssCart, checkoutTimers,
                    redirects, effectPending, showConfirmation, ohQuery, clicks,
                    lost >>

\* handleDeleteAccount up to its await: the button that calls it is rendered
\* in the confirmation view only.
handleDeleteAccount ==
    /\ route = "/delete-user"
    /\ ~effectPending
    /\ showConfirmation
    /\ ~isLoading
    /\ Len(delayed) + Len(redirects) < MaxDelayed
    /\ isLoading' = TRUE
    /\ delayed' = Append(delayed, [op |-> "delete", user |-> LoggedOut,
                                   live |-> TRUE])
    /\ lastEvent' = Event("handleDeleteAccount", 0)
    /\ UNCHANGED << sinceLogout, catalog, register >>
    /\ UNCHANGED << route, user, cart, lsUser, lsOrders, ssCart, checkoutTimers,
                    redirects, effectPending, showConfirmation, ohQuery, clicks,
                    lost >>

\* The 1000 ms delay is over: the rest of handleUpdateUser or of
\* handleDeleteAccount runs. setIsLoading reaches only a mounted component.
DelayedContinues ==
    /\ delayed # << >>
    /\ ~effectPending
    /\ LET k == Head(delayed) IN
       /\ user' = k.user
       /\ lsUser' = IF k.op = "update" THEN Json(k.user) ELSE Absent
       /\ isLoading' = IF k.live THEN FALSE ELSE isLoading
       /\ redirects' = Append(redirects, IF k.op = "update" THEN "/home" ELSE "/")
       /\ effectPending' = PendingAfterSetUser(k.user)
       /\ lastEvent' = Event("DelayedContinues", k.op)
       /\ UNCHANGED << sinceLogout, catalog, register >>
    /\ delayed' = Tail(delayed)
    /\ UNCHANGED << route, cart, lsOrders, ssCart, checkoutTimers,
                    showConfirmation, ohQuery, clicks, lost >>

\* The 3000 ms timer set after the update or the deletion: navigate(target).
RedirectFires ==
    /\ redirects # << >>
    /\ ~effectPending
    /\ Goto(Head(redirects), delayed, register)
    /\ effectPending' = PendingAfter(Head(redirects), FALSE)
    /\ redirects' = Tail(redirects)
    /\ lastEvent' = Event("RedirectFires", Head(redirects))
    /\ UNCHANGED sinceLogout
    /\ UNCHANGED << user, cart, lsUser, lsOrders, ssCart, checkoutTimers, clicks,
                    lost >>

----------------------------------------------------------------------------
(* Cart pages *)

\* Everything but the catalog.
CatalogOnly == << route, user, cart, lsUser, lsOrders, ssCart, checkoutTimers,
                  delayed, redirects, effectPending, showConfirmation,
                  isLoading, ohQuery, register, clicks, lost, sinceLogout >>

\* The end of a fetch of react-query: a failed refetch keeps the data of the
\* last successful one.
QueryFetched(q, ok, data) ==
    IF ok
    THEN [q EXCEPT !.status = "success", !.data = data]
    ELSE [q EXCEPT !.status = "error"]

\* A render of ProductCatalog computes sortedProducts from the cached array.
Rendered(c) ==
    [c EXCEPT !.products.data = productsAfterSort(@, c.sortOption)]

\* The products query function (dispatch(fetchProducts()).unwrap()) returns
\* the fetched list or throws.
ProductsFetched(ok, data) ==
    /\ catalog.products.started
    /\ ~effectPending
    /\ catalog' = Rendered([catalog EXCEPT
                              !.products = QueryFetched(@, ok, data)])
    /\ lastEvent' = Event("ProductsFetched", ok)
    /\ UNCHANGED CatalogOnly

\* The categories query function returns the fetched list or throws.
CategoriesFetched(ok, data) ==
    /\ catalog.categories.started
    /\ ~effectPending
    /\ catalog' = Rendered([catalog EXCEPT
                              !.categories = QueryFetched(@, ok, data)])
    /\ lastEvent' = Event("CategoriesFetched", ok)
    /\ UNCHANGED CatalogOnly

\* The answers to the first fetch of each query in a page session.
FirstProductsFetched(ok, data) ==
    /\ catalog.products.status = "pending"
    /\ ProductsFetched(ok, data)

FirstCategoriesFetched(ok, data) ==
    /\ catalog.categories.status = "pending"
    /\ CategoriesFetched(ok, data)

\* The sort select: 'rating' is offered when the first product has a rating.
setSortOption(option) ==
    /\ route = "/home"
    /\ ~effectPending
    /\ View(catalog) = "grid"
    /\ option # catalog.sortOption
    /\ option = "rating" => catalog.products.data # << >>
    /\ catalog' = Rendered([catalog EXCEPT !.sortOption = option])
    /\ lastEvent' = Event("setSortOption", option)
    /\ UNCHANGED CatalogOnly

\* The search field.
setSearchQuery(query) ==
    /\ route = "/home"
    /\ ~effectPending
    /\ View(catalog) = "grid"
    /\ query # catalog.searchQuery
    /\ catalog' = Rendered([catalog EXCEPT !.searchQuery = query])
    /\ lastEvent' = Event("setSearchQuery", query)
    /\ UNCHANGED CatalogOnly

\* The category select: 'all' and the fetched categories.
setSelectedCategory(category) ==
    /\ route = "/home"
    /\ ~effectPending
    /\ View(catalog) = "grid"
    /\ category # catalog.selectedCategory
    /\ category \in { "all" } \cup Range(catalog.categories.data)
    /\ catalog' = Rendered([catalog EXCEPT !.selectedCategory = category])
    /\ lastEvent' = Event("setSelectedCategory", category)
    /\ UNCHANGED CatalogOnly

\* ProductCatalog.handleAddToCart: the button of a product card of the grid.
handleAddToCart(product) ==
    /\ route = "/home"
    /\ ~effectPending
    /\ View(catalog) = "grid"
    /\ product \in Range(Displayed(catalog))
    /\ cart.totalItems < MaxShopItems
    /\ cart' = addToCart(cart, product)
    /\ lastEvent' = Event("handleAddToCart", product.id)
    /\ UNCHANGED CartOnly

\* ShoppingCart.handleRemoveFromCart: the Remove button of a cart line. The
\* new items array re-runs ShoppingCart's effect.
handleRemoveFromCart(productId) ==
    /\ route = "/cart"
    /\ ~effectPending
    /\ findIndex(cart.items, productId) # 0
    /\ cart' = removeFromCart(cart, productId)
    /\ effectPending' = TRUE
    /\ lastEvent' = Event("handleRemoveFromCart", productId)
    /\ UNCHANGED << sinceLogout, catalog, register >>
    /\ UNCHANGED << route, user, lsUser, lsOrders, ssCart, checkoutTimers,
                    delayed, redirects, showConfirmation, isLoading, ohQuery,
                    clicks, lost >>

\* ShoppingCart.handleClearCart: rendered only for a non-empty cart.
handleClearCart ==
    /\ route = "/cart"
    /\ ~effectPending
    /\ cart.items # << >>
    /\ cart' = clearCart(cart)
    /\ effectPending' = TRUE
    /\ lastEvent' = Event("handleClearCart", 0)
    /\ UNCHANGED << sinceLogout, catalog, register >>
    /\ UNCHANGED << route, user, lsUser, lsOrders, ssCart, checkoutTimers,
                    delayed, redirects, showConfirmation, isLoading, ohQuery,
                    clicks, lost >>

\* saveCartToSessionStorage(cartItems) in ShoppingCart's useEffect.
ShoppingCartEffect ==
    /\ route = "/cart"
    /\ effectPending
    /\ ssCart' = Json(cart.items)
    /\ effectPending' = FALSE
    /\ lastEvent' = Event("ShoppingCartEffect", 0)
    /\ UNCHANGED << sinceLogout, catalog, register >>
    /\ UNCHANGED << route, user, cart, lsUser, lsOrders, checkoutTimers, delayed,
                    redirects, showConfirmation, isLoading, ohQuery, clicks,
                    lost >>

----------------------------------------------------------------------------
(* Checkout *)

\* Number.prototype.toString: a string, never equal to the number.
NumToString(n) == << "str", n >>

\* cartItems.map(item => ({productId, quantity, price}))
OrderItems(cartItems) ==
    [i \in 1..Len(cartItems) |->
        [productId |-> NumToString(cartItems[i].id),
         quantity |-> cartItems[i].quantity,
         price |-> cartItems[i].price]]

\* newOrder of the timer callback, from the cartItems of its closure.
NewOrder(cartItems) ==
    [items |-> OrderItems(cartItems), totalAmount |-> calculateTotal(cartItems)]

scheduleCheckout_Once(timers, cartItems) ==
    IF timers = << >> THEN << cartItems >> ELSE timers

\* setTimeout(() => {...}, 500): the callback closes over the cartItems of
\* the render in which the button was clicked.
scheduleCheckout(timers, cartItems) == Append(timers, cartItems)

\* handleCheckout: the Checkout button is rendered only for a non-empty cart.
handleCheckout ==
    /\ route = "/cart"
    /\ ~effectPending
    /\ cart.items # << >>
    /\ clicks < MaxCheckouts
    /\ checkoutTimers' = scheduleCheckout(checkoutTimers, cart.items)
    /\ clicks' = clicks + 1
    /\ lastEvent' = Event("handleCheckout", 0)
    /\ UNCHANGED << sinceLogout, catalog, register >>
    /\ UNCHANGED << route, user, cart, lsUser, lsOrders, ssCart, delayed,
                    redirects, effectPending, showConfirmation, isLoading,
                    ohQuery, lost >>

\* The timer callback of handleCheckout. dispatch(clearCart()) gives the
\* store a new items array, which re-runs the effect of a mounted
\* ShoppingCart.
CheckoutTimeout ==
    /\ checkoutTimers # << >>
    /\ ~effectPending
    /\ lsOrders' = saveOrderToLocalStorage(lsOrders, NewOrder(Head(checkoutTimers)))
    /\ ssCart' = Absent
    /\ cart' = clearCart(cart)
    /\ checkoutTimers' = Tail(checkoutTimers)
    /\ effectPending' = (route = "/cart")
    /\ lastEvent' = Event("CheckoutTimeout", 0)
    /\ UNCHANGED << sinceLogout, catalog, register >>
    /\ UNCHANGED << route, user, lsUser, delayed, redirects, showConfirmation,
                    isLoading, ohQuery, clicks, lost >>

----------------------------------------------------------------------------
(* Order history page *)

\* OrderHistory.getOrdersFromLocalStorage has no try/catch: JSON.parse
\* throws out of the query function and the query ends in error.
fetchOrderHistory(q, ls) ==
    IF ls.kind = "malformed"
    THEN [q EXCEPT !.status = "error", !.fetching = FALSE]
    ELSE [q EXCEPT !.status = "success", !.fetching = FALSE]

OrderHistoryFetched ==
    /\ ohQuery.fetching
    /\ ~effectPending
    /\ ohQuery' = fetchOrderHistory(ohQuery, lsOrders)
    /\ lastEvent' = Event("OrderHistoryFetched", lsOrders.kind)
    /\ UNCHANGED << sinceLogout, catalog, register >>
    /\ UNCHANGED << route, user, cart, lsUser, lsOrders, ssCart, checkoutTimers,
                    delayed, redirects, effectPending, showConfirmation,
                    isLoading, clicks, lost >>

----------------------------------------------------------------------------
(* Register page *)

RegisterOnly == << user, cart, lsUser, lsOrders, ssCart, checkoutTimers,
                   redirects, showConfirmation, isLoading, ohQuery, catalog,
                   clicks, lost, sinceLogout >>

\* The form is submitted (the browser has checked the required fields): the
\* handler runs up to its await. The submit button is disabled while
\* isLoading.
handleRegister ==
    /\ route = "/register"
    /\ ~effectPending
    /\ ~register.isLoading
    /\ Len(register.requests) + Len(register.timers) < MaxRegister
    /\ register' = submitRegister(register)
    /\ lastEvent' = Event("handleRegister", 0)
    /\ UNCHANGED << route, delayed, effectPending >>
    /\ UNCHANGED RegisterOnly

\* The i-th fetch in flight settles and its handleRegister runs to its end.
RegisterSettles(i, outcome) ==
    /\ i \in 1..Len(register.requests)
    /\ ~effectPending
    /\ register' = settleRegister(register, i, outcome)
    /\ lastEvent' = Event("RegisterSettles",
                          [live |-> register.requests[i].live,
                           outcome |-> outcome])
    /\ UNCHANGED << route, delayed, effectPending >>
    /\ UNCHANGED RegisterOnly

\* The 3000 ms timer of a successful registration: hide the success alert
\* and navigate('/'), wherever the user is by then.
RegisterTimerFires ==
    /\ register.timers # << >>
    /\ ~effectPending
    /\ Goto("/", delayed,
            [register EXCEPT
                !.timers = Tail(@),
                !.showSuccessAlert = IF Head(register.timers).live
                                     THEN FALSE ELSE @])
    /\ effectPending' = PendingAfter("/", FALSE)
    /\ lastEvent' = Event("RegisterTimerFires", Head(register.timers).live)
    /\ UNCHANGED << user, cart, lsUser, lsOrders, ssCart, checkoutTimers,
                    redirects, clicks, lost, sinceLogout >>

\* onClose of the two dismissible alerts.
dismissSuccessAlert ==
    /\ route = "/register"
    /\ ~effectPending
    /\ register.showSuccessAlert
    /\ register' = [register EXCEPT !.showSuccessAlert = FALSE]
    /\ lastEvent' = Event("dismissSuccessAlert", 0)
    /\ UNCHANGED << route, delayed, effectPending >>
    /\ UNCHANGED RegisterOnly

dismissErrorAlert ==
    /\ route = "/register"
    /\ ~effectPending
    /\ register.showErrorAlert
    /\ register' = [register EXCEPT !.showErrorAlert = FALSE]
    /\ lastEvent' = Event("dismissErrorAlert", 0)
    /\ UNCHANGED << route, delayed, effectPending >>
    /\ UNCHANGED RegisterOnly

----------------------------------------------------------------------------
(* Environment *)

\* A link click or a back/forward step to an entry of the tab's history.
Navigate(r) ==
    /\ r # route
    /\ ~effectPending
    /\ Goto(r, delayed, register)
    /\ effectPending' = PendingAfter(r, FALSE)
    /\ lastEvent' = Event("Navigate", r)
    /\ UNCHANGED sinceLogout
    /\ UNCHANGED << user, cart, lsUser, lsOrders, ssCart, checkoutTimers,
                    redirects, clicks, lost >>

\* A full page load of route r: memory (context, store, timers, query cache)
\* starts afresh, storage survives.
Reload(r) ==
    /\ route' = r
    /\ user' = LoggedOut
    /\ cart' = initialState
    /\ checkoutTimers' = << >>
    /\ delayed' = << >>
    /\ redirects' = << >>
    /\ effectPending' = (r \in EffectRoutes)
    /\ showConfirmation' = FALSE
    /\ isLoading' = FALSE
    /\ ohQuery' = [InitialQuery EXCEPT !.fetching = (r = "/order-history")]
    /\ catalog' = Remount(InitialCatalog, r = "/home")
    /\ register' = InitialRegister
    /\ lost' = lost + Len(checkoutTimers)
    /\ lastEvent' = Event("load", r)
    /\ UNCHANGED sinceLogout
    /\ UNCHANGED << lsUser, lsOrders, ssCart, clicks >>

\* Something other than this page (another tab, the developer tools) leaves
\* text under 'userSession' that is not JSON.
CorruptUserSession ==
    /\ ~effectPending
    /\ lsUser.kind = "json"
    /\ lsUser' = Malformed
    /\ lastEvent' = Event("CorruptUserSession", 0)
    /\ UNCHANGED << sinceLogout, catalog, register >>
    /\ UNCHANGED << route, user, cart, lsOrders, ssCart, checkoutTimers, delayed,
                    redirects, effectPending, showConfirmation, isLoading,
                    ohQuery, clicks, lost >>

----------------------------------------------------------------------------
(* The application *)

\* The shop: the catalog page, the cart page, checkout and the order
\* history, for one user name.
ShopRoutes == { "/", "/home", "/cart", "/order-history" }

ShopNext ==
    \/ LoginEffect
    \/ handleLogin(NameBob)
    \/ HomePageEffect
    \/ FirstProductsFetched(TRUE, Catalog)
    \/ FirstCategoriesFetched(TRUE, << "electronics", "jewelery" >>)
    \/ \E product \in Products : handleAddToCart(product)
    \/ \E productId \in Ids : handleRemoveFromCart(productId)
    \/ handleClearCart
    \/ ShoppingCartEffect
    \/ handleCheckout
    \/ CheckoutTimeout
    \/ OrderHistoryFetched
    \/ \E r \in ShopRoutes : Navigate(r)
    \/ CorruptUserSession

ShopSpec == Init /\ [][ShopNext \/ \E r \in ShopRoutes : Reload(r)]_vars

\* The user session: login, logout, profile update, account deletion.
AuthRoutes == { "/", "/home", "/add-product", "/logout", "/update-profile",
                "/delete-user" }

\* What happens within one page session.
AuthPage ==
    \/ LoginEffect
    \/ \E username \in LoginNames : handleLogin(username)
    \/ HomePageEffect
    \/ UpdateUserEffect
    \/ DeleteUserEffect
    \/ LogoutEffect
    \/ \E username \in UpdateNames : handleUpdateUser(username)
    \/ showDeleteConfirmation
    \/ handleCancelDelete
    \/ handleDeleteAccount
    \/ DelayedContinues
    \/ RedirectFires
    \/ \E r \in AuthRoutes : Navigate(r)
    \/ CorruptUserSession

AuthNext ==
    \/ AuthPage
    \/ \E r \in AuthRoutes : Reload(r)

AuthSpec == Init /\ [][AuthNext]_vars

\* A profile update in the middle of shopping, within one page session.
ProfileRoutes == { "/", "/home", "/cart", "/update-profile" }

ProfileNext ==
    \/ LoginEffect
    \/ handleLogin(NameBob)
    \/ HomePageEffect
    \/ UpdateUserEffect
    \/ FirstProductsFetched(TRUE, Catalog)
    \/ FirstCategoriesFetched(TRUE, << "electronics", "jewelery" >>)
    \/ \E product \in Products : handleAddToCart(product)
    \/ ShoppingCartEffect
    \/ handleCheckout
    \/ CheckoutTimeout
    \/ \E username \in UpdateNames : handleUpdateUser(username)
    \/ DelayedContinues
    \/ RedirectFires
    \/ \E r \in ProfileRoutes : Navigate(r)

ProfileSpec == Init /\ [][ProfileNext]_vars

\* The catalog on the home page after a login, with every answer of the two
\* requests.
CatalogNext ==
    \/ LoginEffect
    \/ handleLogin(NameBob)
    \/ HomePageEffect
    \/ \E data \in ProductLists : FirstProductsFetched(TRUE, data)
    \/ ProductsFetched(FALSE, << >>)
    \/ \E data \in CategoryLists : FirstCategoriesFetched(TRUE, data)
    \/ CategoriesFetched(FALSE, << >>)
    \/ \E option \in SortOptions : setSortOption(option)
    \/ \E query \in SearchQueries : setSearchQuery(query)
    \/ \E category \in CategoryNames \cup { "all" } : setSelectedCategory(category)

CatalogSpec == Init /\ [][CatalogNext]_vars

\* Registration: the Register page and the Login page its timer leads to.
RegisterRoutes == { "/", "/register" }

RegisterNext ==
    \/ LoginEffect
    \/ \E r \in RegisterRoutes : Navigate(r)
    \/ handleRegister
    \/ \E i \in 1..MaxRegister, outcome \in Outcomes : RegisterSettles(i, outcome)
    \/ RegisterTimerFires
    \/ dismissSuccessAlert
    \/ dismissErrorAlert
    \/ \E r \in RegisterRoutes : Reload(r)

RegisterSpec == Init /\ [][RegisterNext]_vars

\* All of them together, on every route.
Next ==
    \/ ShopNext
    \/ AuthNext
    \/ CatalogNext
    \/ RegisterNext
    \/ \E data \in ProductLists : ProductsFetched(TRUE, data)
    \/ \E data \in CategoryLists : CategoriesFetched(TRUE, data)
    \/ \E r \in Routes : Navigate(r)
    \/ \E r \in Routes : Reload(r)

Spec == Init /\ [][Next]_vars

----------------------------------------------------------------------------
(* Fairness for the shop within one page session: React runs a pending     *)
(* effect, the query function returns, and a timer that is due fires even  *)
(* though renders and effects come in between.                             *)

ShopLive ==
    /\ Init
    /\ [][ShopNext]_vars
    /\ WF_vars(LoginEffect)
    /\ WF_vars(HomePageEffect)
    /\ WF_vars(ShoppingCartEffect)
    /\ SF_vars(CheckoutTimeout)

\* Fairness for the user session within one page session: effects run, and
\* the simulated delays and the redirect timers are never cancelled.
AuthLive ==
    /\ Init
    /\ [][AuthPage]_vars
    /\ WF_vars(LoginEffect)
    /\ WF_vars(HomePageEffect)
    /\ WF_vars(UpdateUserEffect)
    /\ WF_vars(DeleteUserEffect)
    /\ WF_vars(LogoutEffect)
    /\ SF_vars(DelayedContinues)
    /\ SF_vars(RedirectFires)

----------------------------------------------------------------------------
(* Claims *)

Orders == getOrdersFromLocalStorage(lsOrders)

\* C1: in every cart state reached by addToCart, removeFromCart,
\* updateQuantity and clearCart with any payloads, state.totalPrice is the
\* sum over state.items of price * quantity.
C1_TotalPriceIsSum == cart.totalPrice = calculateTotal(cart.items)

\* C2: in every cart state reached by addToCart, removeFromCart,
\* updateQuantity and clearCart, state.totalItems is the sum of the
\* quantities of state.items.
C2_TotalItemsIsSum == cart.totalItems = SumQuantities(cart.items)

C2_Witness ==
    /\ lastEvent.op = "updateQuantity"
    /\ Len(cart.items) = 2
    /\ cart.totalItems >= 3

\* C3: every checkout click on a non-empty cart completes: the run of its
\* timer callback appends exactly one order to 'orderHistory', removes
\* sessionStorage 'shoppingCart' and leaves the Redux cart in its initial
\* state, and the k-th click is eventually followed by the k-th order.
C3_CheckoutCompletes ==
    /\ [][lastEvent'.op = "CheckoutTimeout" =>
            /\ Len(getOrdersFromLocalStorage(lsOrders')) = Len(Orders) + 1
            /\ ssCart' = Absent
            /\ cart' = initialState]_vars
    /\ \A k \in 1..MaxCheckouts : (clicks >= k) ~> (Len(Orders) >= k)

C3_Witness ==
    /\ lastEvent.op = "CheckoutTimeout"
    /\ clicks >= 1
    /\ Len(Orders) = clicks
    /\ ssCart = Absent
    /\ cart = initialState

\* C4: the order a checkout saves holds exactly the items (product id,
\* quantity, price) that are in the Redux cart when the timer callback runs.
C4_OrderIsCartAtSave ==
    [][lastEvent'.op = "CheckoutTimeout" =>
        LET saved == getOrdersFromLocalStorage(lsOrders') IN
        saved[Len(saved)].items = OrderItems(cart.items)]_vars

\* C5: checkout is not idempotent: every click that starts a timer yields
\* its own order, so the orders saved, the timers pending and the timers a
\* page load discarded add up to the clicks.
C5_OneOrderPerClick == Len(Orders) + Len(checkoutTimers) + lost = clicks

C5_Witness ==
    /\ lastEvent.op = "CheckoutTimeout"
    /\ clicks = 2
    /\ lost = 0
    /\ checkoutTimers = << >>
    /\ Len(Orders) = 2
    /\ Orders[1] = Orders[2]

\* C6: order history is append-only: every step keeps the stored orders in
\* place and unmodified, and the list grows by exactly one at each
\* completed checkout and by nothing otherwise.
C6_AppendOnly ==
    [][LET new == getOrdersFromLocalStorage(lsOrders') IN
       /\ Len(new) = Len(Orders) + (IF lastEvent'.op = "CheckoutTimeout" THEN 1 ELSE 0)
       /\ SubSeq(new, 1, Len(Orders)) = Orders]_vars

C6_Witness ==
    /\ lastEvent.op = "CheckoutTimeout"
    /\ Len(Orders) = 2
    /\ Orders[1] # Orders[2]


\* C7 as claimed: whenever a storage key the application reads holds
\* malformed JSON, the parse failure is caught and the key is deleted.
C7_MalformedKeyDeleted ==
    [][/\ (lastEvent'.op = "LoginEffect" /\ lsUser.kind = "malformed")
            => lsUser' = Absent
       /\ (lastEvent'.op = "HomePageEffect" /\ user.isLoggedIn
             /\ lsUser.kind = "malformed") => lsUser' = Absent
       /\ (lastEvent'.op = "OrderHistoryFetched" /\ lsOrders.kind = "malformed")
            => (lsOrders' = Absent /\ ohQuery'.status # "error")
       /\ (lastEvent'.op = "CheckoutTimeout" /\ lsOrders.kind = "malformed")
            => lsOrders'.kind # "malformed"]_vars

\* C7 amended: malformed 'userSession' is caught and the key removed by
\* Login's effect and by HomePage's effect for a logged-in user; malformed
\* 'orderHistory' is never removed: OrderHistory's query ends in error with
\* the key untouched, and the checkout's getOrdersFromLocalStorage reads it
\* as no orders, so that the key then holds the new order alone.
C7_UserSessionDeletedOrdersKept ==
    [][/\ (lastEvent'.op = "LoginEffect" /\ lsUser.kind = "malformed")
            => lsUser' = Absent
       /\ (lastEvent'.op = "HomePageEffect" /\ user.isLoggedIn
             /\ lsUser.kind = "malformed") => lsUser' = Absent
       /\ (lastEvent'.op = "OrderHistoryFetched" /\ lsOrders.kind = "malformed")
            => (lsOrders' = lsOrders /\ ohQuery'.status = "error")
       /\ (lastEvent'.op = "CheckoutTimeout" /\ lsOrders.kind = "malformed")
            => (lsOrders'.kind = "json" /\ Len(lsOrders'.value) = 1)]_vars

C7_Witness ==
    /\ (lastEvent.op = "LoginEffect" /\ lastEvent.arg = << "malformed", FALSE >>)
    /\ lsUser = Absent

\* C8: login checks no credential: on the login page every username, the
\* empty one included, can be submitted, and handleLogin leaves the context
\* user {name: username, isLoggedIn: true}, the same value under
\* 'userSession', and the route /add-product exactly when the lower-cased
\* username is 'admin', /home otherwise.
C8_LoginAcceptsAnyName ==
    /\ (route = "/" /\ ~effectPending)
          => \A username \in LoginNames : ENABLED handleLogin(username)
    /\ lastEvent.op = "handleLogin"
          => /\ user = [name |-> lastEvent.arg, isLoggedIn |-> TRUE]
             /\ lsUser = Json([name |-> lastEvent.arg, isLoggedIn |-> TRUE])
             /\ route = IF toLowerCase(lastEvent.arg) = NameAdminLower
                        THEN "/add-product" ELSE "/home"

C8_Witness ==
    /\ (lastEvent.op = "handleLogin" /\ lastEvent.arg = NameEmpty)
    /\ user = [name |-> NameEmpty, isLoggedIn |-> TRUE]
    /\ route = "/home"

\* C9: with a stored session under 'userSession', Login's effect sets the
\* context user to exactly the stored value and navigates to /add-product
\* for 'admin' in any letter case and to /home otherwise; after a page load
\* of '/' that effect is what runs, before any input is taken.
C9_SessionRestored ==
    /\ [][(lastEvent'.op = "LoginEffect" /\ lsUser.kind = "json") =>
            /\ user' = lsUser.value
            /\ lsUser' = lsUser
            /\ route' = IF toLowerCase(lsUser.value.name) = NameAdminLower
                        THEN "/add-product" ELSE "/home"]_vars
    /\ []((lastEvent.op = "load" /\ lastEvent.arg = "/") =>
            /\ ENABLED LoginEffect
            /\ \A username \in LoginNames : ~ENABLED handleLogin(username))

C9_Witness ==
    /\ (lastEvent.op = "LoginEffect" /\ lastEvent.arg = << "json", FALSE >>)
    /\ user = [name |-> NameAdminMixed, isLoggedIn |-> TRUE]
    /\ lsUser = Json(user)
    /\ route = "/add-product"

\* C10: once Logout's effect has run, 'userSession' is absent and the
\* context user is {name: '', isLoggedIn: false} until handleLogin is next
\* invoked.
C10_LoggedOutUntilLogin ==
    sinceLogout => (lsUser = Absent /\ user = LoggedOut)

\* C11: /home, /update-profile and /delete-user are shown to logged-in
\* users only: the effect of such a page, run while the context user is not
\* logged in, navigates to '/', and in every quiescent state on one of these
\* routes user.isLoggedIn is true.
C11_GuardedPagesNeedLogin ==
    /\ [][(/\ lastEvent'.op \in { "HomePageEffect", "LoginGuardEffect" }
           /\ ~user.isLoggedIn) => route' = "/"]_vars
    /\ []((route \in GuardedRoutes /\ ~effectPending) => user.isLoggedIn)

C11_Witness ==
    /\ (lastEvent.op = "LoginGuardEffect" /\ lastEvent.arg = "/delete-user")
    /\ ~user.isLoggedIn
    /\ route = "/"
    /\ redirects # << >>

\* C12: account deletion takes two steps: the confirmation state is entered
\* by showDeleteConfirmation only, handleDeleteAccount runs only in the
\* confirmation state, and handleCancelDelete returns to the initial prompt
\* with the context user and 'userSession' unchanged.
C12_TwoStepDeletion ==
    /\ [][(showConfirmation' /\ ~showConfirmation)
             => lastEvent'.op = "showDeleteConfirmation"]_vars
    /\ [][lastEvent'.op = "handleDeleteAccount" => showConfirmation]_vars
    /\ [](ENABLED handleDeleteAccount => showConfirmation)
    /\ [][lastEvent'.op = "handleCancelDelete" =>
            /\ ~showConfirmation'
            /\ user' = user
            /\ lsUser' = lsUser]_vars

C12_Witness ==
    /\ lastEvent.op = "handleDeleteAccount"
    /\ showConfirmation
    /\ isLoading
    /\ user.isLoggedIn
    /\ lsUser = Json(user)

\* C13: every confirmed account deletion completes: its continuation runs
\* after the delay and leaves the context user {name: '', isLoggedIn: false},
\* 'userSession' absent and isLoading of the (still mounted) component
\* false, and afterwards the application arrives at the login route '/'.
C13_DeletionCompletes ==
    /\ [][(lastEvent'.op = "DelayedContinues" /\ lastEvent'.arg = "delete") =>
            /\ user' = LoggedOut
            /\ lsUser' = Absent
            /\ (Head(delayed).live => ~isLoading')]_vars
    /\ (lastEvent.op = "handleDeleteAccount")
          ~> ((lastEvent.op = "DelayedContinues" /\ lastEvent.arg = "delete"))
    /\ ((lastEvent.op = "DelayedContinues" /\ lastEvent.arg = "delete")) ~> (route = "/")

C13_Witness ==
    /\ (lastEvent.op = "RedirectFires" /\ lastEvent.arg = "/")
    /\ route = "/"
    /\ user = LoggedOut
    /\ lsUser = Absent
    /\ ~isLoading

\* C14: a profile update changes only the name: what handleUpdateUser keeps
\* at submit is the context user of that moment with the submitted name,
\* isLoggedIn as it was; when it completes, the context user is that value,
\* 'userSession' holds the same value, and the cart and the order history
\* are as they were before the completion.
C14_UpdateChangesOnlyName ==
    [][/\ lastEvent'.op = "handleUpdateUser" =>
            /\ delayed'[Len(delayed')].user
                  = [name |-> lastEvent'.arg, isLoggedIn |-> user.isLoggedIn]
            /\ << user', lsUser', cart', lsOrders' >>
                  = << user, lsUser, cart, lsOrders >>
       /\ (lastEvent'.op = "DelayedContinues" /\ lastEvent'.arg = "update") =>
            /\ user' = Head(delayed).user
            /\ lsUser' = Json(Head(delayed).user)
            /\ cart' = cart
            /\ lsOrders' = lsOrders
            /\ ssCart' = ssCart]_vars

C14_Witness ==
    /\ (lastEvent.op = "DelayedContinues" /\ lastEvent.arg = "update")
    /\ user = [name |-> NameAl, isLoggedIn |-> TRUE]
    /\ lsUser = Json(user)
    /\ cart.items # << >>
    /\ Len(Orders) >= 1

\* C15: the product list shown by ProductCatalog is the sorted product list
\* restricted to the products whose category is the selected one (all of
\* them for 'all') and whose title or description contains the search query
\* up to letter case (all of them for the empty query), in the order of the
\* sorted list.
C15_ShownIsFilteredSorted ==
    View(catalog) = "grid" =>
        LET sorted == sortedProducts(catalog.products.data, catalog.sortOption)
            ContainsQuery(text) ==
                \E i \in 1..(Len(text) + 1), j \in 0..Len(text) :
                    toLowerCase(SubSeq(text, i, j))
                        = toLowerCase(catalog.searchQuery)
            Wanted(product) ==
                /\ catalog.selectedCategory # "all"
                      => product.category = catalog.selectedCategory
                /\ catalog.searchQuery # << >>
                      => (ContainsQuery(product.title)
                            \/ ContainsQuery(product.description))
        IN Displayed(catalog) = SelectSeq(sorted, Wanted)

C15_Witness ==
    /\ View(catalog) = "grid"
    /\ lastEvent.op = "setSearchQuery"
    /\ catalog.searchQuery = TextUpperA
    /\ catalog.selectedCategory = "electronics"
    /\ catalog.sortOption = "price-high-to-low"
    /\ Len(catalog.products.data) = 2
    /\ catalog.products.data[1].category = "electronics"
    /\ catalog.products.data[2].category = "electronics"
    /\ catalog.products.data[1].price < catalog.products.data[2].price
    /\ Len(Displayed(catalog)) = 2
    /\ Displayed(catalog)[1].title = TextB
    /\ Displayed(catalog)[2].title = TextAb

\* C16: for every fetched product list and every sort option, sortedProducts
\* is a permutation of the list, by non-decreasing price for
\* 'price-low-to-high', by non-increasing price for 'price-high-to-low', by
\* non-increasing rating.rate for 'rating' and the list in its fetched order
\* for 'default'; choosing a sort option leaves the fetched list in its
\* order.
C16_SortedIsOrderedPermutation ==
    /\ [](\A option \in SortOptions :
            LET data == catalog.products.data
                sorted == sortedProducts(data, option) IN
            /\ Len(sorted) = Len(data)
            /\ \E perm \in [1..Len(data) -> 1..Len(data)] :
                  /\ \A i, j \in 1..Len(data) : i # j => perm[i] # perm[j]
                  /\ \A i \in 1..Len(data) : sorted[i] = data[perm[i]]
            /\ \A i, j \in 1..Len(sorted) : i < j =>
                  /\ option = "price-low-to-high"
                        => sorted[i].price <= sorted[j].price
                  /\ option = "price-high-to-low"
                        => sorted[i].price >= sorted[j].price
                  /\ option = "rating"
                        => sorted[i].rating.rate >= sorted[j].rating.rate
            /\ option = "default" => sorted = data)
    /\ [][lastEvent'.op = "setSortOption"
            => catalog'.products.data = catalog.products.data]_vars

C16_Witness ==
    /\ lastEvent.op = "setSortOption"
    /\ catalog.sortOption = "rating"
    /\ Len(catalog.products.data) = 2
    /\ catalog.products.data[1].rating.rate < catalog.products.data[2].rating.rate
    /\ catalog.products.data[1].price < catalog.products.data[2].price
    /\ Displayed(catalog)
          = << catalog.products.data[2], catalog.products.data[1] >>

\* C17: the cart survives a page load: with items stored under
\* 'shoppingCart', the cart holds those items again once the page has
\* loaded, that is after the first step that follows the load.
C17_CartRestoredAfterReload ==
    [][(lastEvent.op = "load" /\ getCartFromSessionStorage(ssCart) # << >>)
          => cart'.items = getCartFromSessionStorage(ssCart)]_vars

\* C18: addToCart(product) appends a line of quantity 1 with the product's
\* price when no line has the product's id, and otherwise adds 1 to the
\* quantity of the line with that id; every other line is unchanged and
\* totalItems grows by exactly 1.
C18_AddToCartContract ==
    [][lastEvent'.op = "addToCart" =>
        LET product == lastEvent'.arg
            old == cart.items
            new == cart'.items IN
        /\ cart'.totalItems = cart.totalItems + 1
        /\ IF \A k \in 1..Len(old) : old[k].id # product.id
           THEN /\ new = Append(old, [id |-> product.id,
                                      price |-> product.price,
                                      quantity |-> 1])
                /\ new[Len(new)].price * new[Len(new)].quantity = product.price
           ELSE /\ Len(new) = Len(old)
                /\ \A k \in 1..Len(old) :
                      IF old[k].id = product.id
                      THEN new[k] = [old[k] EXCEPT !.quantity = @ + 1]
                      ELSE new[k] = old[k]]_vars

C18_Witness ==
    /\ lastEvent.op = "addToCart"
    /\ Len(cart.items) = 2
    /\ cart.items[1].id = lastEvent.arg.id
    /\ cart.items[1].quantity = 2
    /\ cart.items[2].quantity = 1
    /\ cart.totalItems = 3

\* C19: ProductCatalog shows the loading line whenever the products query
\* or the categories query is pending, the error line whenever neither is
\* pending and one of them has failed, and the grid, with its controls, only
\* when both have succeeded.
C19_LoadingErrorGrid ==
    /\ []LET pending == { q \in { "products", "categories" } :
                             catalog[q].status = "pending" }
             failed == { q \in { "products", "categories" } :
                             catalog[q].status = "error" } IN
         /\ pending # {} => View(catalog) = "loading"
         /\ (pending = {} /\ failed # {}) => View(catalog) = "error"
         /\ View(catalog) = "grid"
               => /\ catalog.products.status = "success"
                  /\ catalog.categories.status = "success"
    /\ [][lastEvent'.op \in { "setSortOption", "setSearchQuery",
                              "setSelectedCategory", "handleAddToCart" }
            => /\ catalog.products.status = "success"
               /\ catalog.categories.status = "success"]_vars

C19_Witness ==
    /\ lastEvent.op = "ProductsFetched"
    /\ catalog.products.status = "error"
    /\ catalog.categories.status = "pending"
    /\ catalog.categories.started
    /\ route = "/home"
    /\ View(catalog) = "loading"

\* C20: removeFromCart(id) removes the whole line with that id whatever its
\* quantity, takes its quantity off totalItems and its price * quantity off
\* totalPrice and leaves the other lines as they are and in their order;
\* when no line has that id the cart state is unchanged.
C20_RemoveFromCartContract ==
    [][lastEvent'.op = "removeFromCart" =>
        LET id == lastEvent'.arg
            Other(item) == item.id # id IN
        IF \E k \in 1..Len(cart.items) : cart.items[k].id = id
        THEN LET k == CHOOSE k \in 1..Len(cart.items) : cart.items[k].id = id
                 line == cart.items[k] IN
             /\ cart'.items = SelectSeq(cart.items, Other)
             /\ Len(cart'.items) = Len(cart.items) - 1
             /\ cart'.totalItems = cart.totalItems - line.quantity
             /\ cart'.totalPrice
                   = cart.totalPrice - line.price * line.quantity
        ELSE cart' = cart]_vars

C20_Witness ==
    /\ lastEvent.op = "removeFromCart"
    /\ lastEvent.arg = 1
    /\ Len(cart.items) = 1
    /\ cart.items[1].id = 2
    /\ cart.items[1].quantity = 2
    /\ cart.totalItems = 2
    /\ ENABLED DispatchRemoveFromCart(2)

\* C21: updateQuantity({itemId, quantity}) on a cart that has a line with
\* itemId and with quantity > 0 sets that line's quantity to the given
\* value, leaves every other line and the line's other fields as they are,
\* and moves totalItems by the difference of the quantities and totalPrice
\* by that difference times the line's price; with no line of itemId, or
\* with quantity <= 0, the whole cart state is unchanged.
C21_UpdateQuantityContract ==
    [][lastEvent'.op = "updateQuantity" =>
        LET itemId == lastEvent'.arg.itemId
            quantity == lastEvent'.arg.quantity
            old == cart.items
            new == cart'.items IN
        IF (\E k \in 1..Len(old) : old[k].id = itemId) /\ quantity > 0
        THEN LET k == CHOOSE k \in 1..Len(old) : old[k].id = itemId
                 difference == quantity - old[k].quantity IN
             /\ Len(new) = Len(old)
             /\ \A j \in 1..Len(old) :
                   IF old[j].id = itemId
                   THEN new[j] = [old[j] EXCEPT !.quantity = quantity]
                   ELSE new[j] = old[j]
             /\ cart'.totalItems = cart.totalItems + difference
             /\ cart'.totalPrice = cart.totalPrice + difference * old[k].price
        ELSE cart' = cart]_vars

C21_Witness ==
    /\ lastEvent.op = "updateQuantity"
    /\ lastEvent.arg.itemId = 1
    /\ lastEvent.arg.quantity = 0
    /\ Len(cart.items) = 2
    /\ cart.items[1].id = 1
    /\ cart.items[1].quantity = 2
    /\ cart.totalItems = 3

\* C22: a clearCart step leaves the cart in its initial state (no items,
\* totalItems 0, totalPrice 0) whatever cart it starts from, and on every
\* reachable cart clearCart applied twice gives what clearCart applied once
\* gives.
C22_ClearCartResets ==
    /\ [](clearCart(clearCart(cart)) = clearCart(cart))
    /\ [][lastEvent'.op = "clearCart" =>
            /\ cart' = initialState
            /\ cart'.items = << >>
            /\ cart'.totalItems = 0
            /\ cart'.totalPrice = 0
            /\ clearCart(cart') = cart']_vars

\* clearCart has just emptied a cart of two lines.
C22_Witness ==
    /\ lastEvent.op = "clearCart"
    /\ lastEvent.arg = 2
    /\ cart = initialState

\* C24: in every reachable cart state the lines have pairwise distinct ids:
\* no sequence of addToCart, removeFromCart, updateQuantity and clearCart
\* leaves two lines with the same product id.
C24_DistinctIds ==
    \A i, j \in 1..Len(cart.items) :
        cart.items[i].id = cart.items[j].id => i = j

\* addToCart of an id that already had a line, next to another line.
C24_Witness ==
    /\ lastEvent.op = "addToCart"
    /\ lastEvent.arg.id = 2
    /\ Len(cart.items) = 2
    /\ cart.items[1].id = 2
    /\ cart.items[1].quantity = 2
    /\ cart.items[2].id = 1

\* C23: when a registration fails (fetch rejects, or the response is not
\* ok) while the Register page that submitted it is mounted, the error is
\* caught: the error alert is shown with the error's message, no redirect
\* timer is set, no further request is sent and isLoading is false again;
\* isLoading is also false again after a successful registration, so the
\* submit button is disabled only while a fetch of the mounted page is in
\* flight.
C23_FailedRegistrationCaught ==
    /\ [](register.isLoading =>
            \E i \in 1..Len(register.requests) : register.requests[i].live)
    /\ [][(lastEvent'.op = "RegisterSettles" /\ lastEvent'.arg.live) =>
            LET outcome == lastEvent'.arg.outcome IN
            /\ ~register'.isLoading
            /\ (outcome.settled = "rejected" \/ ~outcome.ok) =>
                  /\ register'.showErrorAlert
                  /\ register'.errorMessage = ErrorMessage(outcome)
                  /\ register'.errorMessage # ""
                  /\ register'.timers = register.timers
                  /\ Len(register'.requests) = Len(register.requests) - 1
                  /\ route' = route]_vars

\* A rejected fetch has just been handled on the mounted Register page.
C23_Witness ==
    /\ lastEvent.op = "RegisterSettles"
    /\ lastEvent.arg.live
    /\ lastEvent.arg.outcome = Rejected
    /\ route = "/register"
    /\ register.showErrorAlert
    /\ register.errorMessage = "Failed to fetch"
    /\ ~register.isLoading
    /\ register.requests = << >>
    /\ register.timers = << >>

\* Every effect has run and no timer, continuation or fetch is outstanding.
Quiescent ==
    /\ ~effectPending
    /\ checkoutTimers = << >>
    /\ delayed = << >>
    /\ redirects = << >>
    /\ register.requests = << >>
    /\ register.timers = << >>
    /\ ~ohQuery.fetching
    /\ \A q \in { "products", "categories" } :
          catalog[q].started => catalog[q].status # "pending"

\* C25: in every quiescent state sessionStorage 'shoppingCart', when
\* present, holds exactly the items of the Redux cart, and in the quiescent
\* state that follows a completed checkout it holds no items.
C25_SessionStorageMirrorsCart ==
    Quiescent =>
        /\ ssCart.kind # "malformed"
        /\ ssCart.kind = "json" => ssCart.value = cart.items
        /\ (ssCart.kind = "json" /\ lastEvent.op = "CheckoutTimeout")
              => ssCart.value = << >>

====
